---------------------------- MODULE Spec2Model ----------------------------
(***************************************************************************)
(* Model of SimpleDoulaAI (doula_ai.py): the rule-based urgency analysis,  *)
(* message categorisation, response selection, context rendering and       *)
(* conversation summary of the SMS doula support service.                  *)
(*                                                                         *)
(* Representation.  A Python text is a TLA+ string; str.lower(), the        *)
(* substring test `in`, concatenation and join are computed on its         *)
(* characters with Len, SubSeq, Head, Tail and \o.  A Python value whose    *)
(* type matters is a record [type, chars].  The outcome of a call is a     *)
(* record [raised, value, exc]: a returned value or a raised exception.    *)
(***************************************************************************)
EXTENDS Integers, Sequences, FiniteSets, TLC

VARIABLES
    urgent_keywords,     \* self.urgent_keywords
    medical_keywords,    \* self.medical_keywords
    response_templates,  \* self.response_templates
    pc,                  \* the caller: "idle", "called" (in the method), "returned"
    op,                  \* the method last called
    message,             \* argument `message` of the last call
    recent_messages,     \* argument `recent_messages` / `messages` of the last call
    ret,                 \* outcome of the last call
    conversation_context, \* argument `conversation_context` of the last call
    phone_number,        \* argument `phone_number` of the last call
    seed,                \* the seed the caller gave the `random` module, or Unseeded
    earlier              \* a call of generate_response the caller has kept: its
                         \* message, its seed and its result

vars == <<urgent_keywords, medical_keywords, response_templates,
          pc, op, message, recent_messages, ret,
          conversation_context, phone_number, seed, earlier>>

---------------------------------------------------------------------------
\* Bounds of the model.

\* A message is the concatenation of at most MaxFrags fragments.
MaxFrags == 2

\* random.choice draws a number in 0..MaxRandom.
MaxRandom == 2

\* The two readings of time.time() are at most MaxElapsed milliseconds apart.
MaxElapsed == 1

\* A history holds at most MaxHist entries.
MaxHist == 4

---------------------------------------------------------------------------
\* Python values and outcomes.

Str(s) == [type |-> "str", chars |-> s]

Bytes(s) == [type |-> "bytes", chars |-> s]

PyNone == [type |-> "NoneType", chars |-> ""]

PyInt == [type |-> "int", chars |-> ""]

NoExc == [type |-> "none", text |-> ""]

Returned(v) == [raised |-> FALSE, value |-> v, exc |-> NoExc]

Raised(t, text) == [raised |-> TRUE, value |-> PyNone, exc |-> [type |-> t, text |-> text]]

\* The classes `except Exception` catches, among those the code can raise.
ExceptionSubclasses == {"AttributeError", "TypeError", "IndexError", "KeyError"}

---------------------------------------------------------------------------
\* Text primitives.

UpperCase == "ABCDEFGHIJKLMNOPQRSTUVWXYZ"

LowerCase == "abcdefghijklmnopqrstuvwxyz"

\* text[i], for i in 1..Len(text)
CharAt(text, i) == SubSeq(text, i, i)

\* The lower-case letter of each upper-case letter.
UpperToLower ==
    [c \in {CharAt(UpperCase, i) : i \in 1..Len(UpperCase)} |->
        CharAt(LowerCase, CHOOSE i \in 1..Len(UpperCase) : CharAt(UpperCase, i) = c)]

\* str.lower() on one character.
LowerChar(c) == IF c \in DOMAIN UpperToLower THEN UpperToLower[c] ELSE c

\* str.lower()
RECURSIVE Lower(_)
Lower(s) == IF s = "" THEN "" ELSE LowerChar(Head(s)) \o Lower(Tail(s))

\* `needle in hay` for two texts.
Contains(needle, hay) ==
    \E i \in 0..(Len(hay) - Len(needle)) :
        SubSeq(hay, i + 1, i + Len(needle)) = needle

\* sep.join(parts)
RECURSIVE Join(_, _)
Join(sep, parts) ==
    IF parts = <<>> THEN ""
    ELSE IF Len(parts) = 1 THEN parts[1]
    ELSE parts[1] \o sep \o Join(sep, Tail(parts))

\* message.lower() for a Python value: str and bytes have the method.
PyLower(v) ==
    IF v.type = "str" THEN Returned(Str(Lower(v.chars)))
    ELSE IF v.type = "bytes" THEN Returned(Bytes(Lower(v.chars)))
    ELSE Raised("AttributeError",
                "'" \o (IF v.type = "int" THEN "int" ELSE "NoneType")
                      \o "' object has no attribute 'lower'")

\* The exception of `kw in v` for a text kw, when v is not a text.
InTypeError == Raised("TypeError", "a bytes-like object is required, not 'str'")

\* any(word in text for word in words) / some word of a list occurs in text.
AnyIn(words, text) == \E k \in 1..Len(words) : Contains(words[k], text)

---------------------------------------------------------------------------
\* SimpleDoulaAI.__init__

UrgentKeywords ==
    << "emergency", "urgent", "help", "crisis", "suicide", "kill myself",
       "abuse", "violence", "pain", "bleeding", "can't breathe",
       "chest pain", "stroke", "heart attack", "overdose", "poison",
       "911", "hospital", "dying", "dying now" >>

MedicalKeywords ==
    << "doctor", "medicine", "medication", "diagnosis", "treatment",
       "prescription", "dosage", "symptoms", "medical advice",
       "should I take", "is this normal medically", "nurse",
       "surgery", "operation" >>

GreetingTemplates ==
    << "Hello, I'm here to support you during this difficult time. How can I help you today?",
       "Thank you for reaching out. I'm here to provide compassionate support. What's on your heart?",
       "I'm glad you contacted us. How can I offer comfort and guidance today?" >>

EndOfLifeTemplates ==
    << "This is such a sacred time. Every person's journey is unique and there's no 'right' way to experience this.",
       "I'm here to support you through this transition. What questions or concerns do you have?",
       "These feelings are completely normal during end-of-life care. You're not alone in this." >>

FearAnxietyTemplates ==
    << "Fear during this time is completely understandable. It's okay to feel scared and uncertain.",
       "Your feelings are valid. Many families experience these emotions during end-of-life care.",
       "Anxiety is a natural response. Take deep breaths. I'm here to support you through this." >>

FamilySupportTemplates ==
    << "Supporting a loved one through this journey takes tremendous strength. You're doing important work.",
       "Family dynamics can be complex during end-of-life care. It's okay to need support too.",
       "Being present for your loved one is a gift. How are you taking care of yourself as well?" >>

PracticalTemplates ==
    << "Let's talk through the practical steps. What specific area would you like guidance with?",
       "I can help you think through the practical aspects while honoring your values and wishes.",
       "Planning ahead can bring peace of mind. What questions do you have about the process?" >>

\* Mutant: the third grief template is left empty.
GriefTemplatesWithBlank ==
    << "Grief is love with nowhere to go. Your feelings of loss are a testament to your love.",
       "There's no timeline for grief. Be patient and gentle with yourself during this process.",
       "" >>

GriefTemplates ==
    << "Grief is love with nowhere to go. Your feelings of loss are a testament to your love.",
       "There's no timeline for grief. Be patient and gentle with yourself during this process.",
       "Anticipatory grief is real and valid. Many people experience loss before death occurs." >>

DefaultTemplates ==
    << "I'm here to listen and support you. Can you tell me more about what you're experiencing?",
       "Thank you for sharing with me. How can I best support you right now?",
       "I hear you, and I'm here to help however I can. What feels most important to address?" >>

EscalationTemplates ==
    << "Thank you for reaching out. A doula will be with you shortly to provide the personal support you need.",
       "I want to make sure you get the best care possible. Katy will be in touch with you soon.",
       "You deserve personalized attention for this important matter. A human doula will contact you directly." >>

ResponseTemplates ==
    [ greeting |-> GreetingTemplates,
      end_of_life |-> EndOfLifeTemplates,
      fear_anxiety |-> FearAnxietyTemplates,
      family_support |-> FamilySupportTemplates,
      practical |-> PracticalTemplates,
      grief |-> GriefTemplates,
      default |-> DefaultTemplates,
      escalation |-> EscalationTemplates ]

---------------------------------------------------------------------------
\* SimpleDoulaAI.analyze_message_urgency

\* Mutant: a found keyword that is part of another found keyword is left out.
FoundLongest(keywords, text) ==
    SelectSeq(keywords, LAMBDA kw :
        /\ Contains(kw, text)
        /\ ~\E k \in 1..Len(keywords) :
              keywords[k] # kw /\ Contains(kw, keywords[k]) /\ Contains(keywords[k], text))

\* [kw for kw in keywords if kw in text]
Found(keywords, text) == SelectSeq(keywords, LAMBDA kw : Contains(kw, text))

\* Mutant: the first comparison admits the empty list.
NeedsEscalationFromZero(urgent_found, medical_found) ==
    Len(urgent_found) >= 0 \/ Len(medical_found) > 0

\* len(urgent_found) > 0 or len(medical_found) > 0
NeedsEscalation(urgent_found, medical_found) ==
    Len(urgent_found) > 0 \/ Len(medical_found) > 0

analyze_message_urgency(msg) ==
    LET message_lower == PyLower(msg) IN
    IF message_lower.raised THEN message_lower
    ELSE IF message_lower.value.type # "str" /\ urgent_keywords # <<>> THEN InTypeError
    ELSE IF message_lower.value.type # "str" /\ medical_keywords # <<>> THEN InTypeError
    ELSE
        LET text == message_lower.value.chars
            urgent_found == Found(urgent_keywords, text)
            medical_found == Found(medical_keywords, text)
            needs_escalation == NeedsEscalation(urgent_found, medical_found)
        IN  Returned([needs_escalation |-> needs_escalation,
                      keywords |-> urgent_found \o medical_found])

---------------------------------------------------------------------------
\* SimpleDoulaAI.categorize_message

GreetingWords == << "hello", "hi", "hey", "good morning", "good afternoon" >>

EndOfLifeWords == << "dying", "death", "passing", "end of life", "terminal", "hospice" >>

FearWords == << "scared", "afraid", "anxious", "worried", "fear", "terrified" >>

FamilyWords == << "family", "spouse", "husband", "wife", "children", "mom", "dad", "mother", "father" >>

PracticalWords == << "how", "what should", "when", "planning", "prepare", "arrangements" >>

GriefWords == << "grief", "sad", "miss", "loss", "mourning", "heartbroken" >>

\* Mutant: the family test comes before the fear test.
CategoryOfFamilyFirst(message_lower) ==
    IF AnyIn(GreetingWords, message_lower) THEN "greeting"
    ELSE IF AnyIn(EndOfLifeWords, message_lower) THEN "end_of_life"
    ELSE IF AnyIn(FamilyWords, message_lower) THEN "family_support"
    ELSE IF AnyIn(FearWords, message_lower) THEN "fear_anxiety"
    ELSE IF AnyIn(PracticalWords, message_lower) THEN "practical"
    ELSE IF AnyIn(GriefWords, message_lower) THEN "grief"
    ELSE "default"

\* The chain of `if any(...)` tests on the lower-cased message.
CategoryOf(message_lower) ==
    IF AnyIn(GreetingWords, message_lower) THEN "greeting"
    ELSE IF AnyIn(EndOfLifeWords, message_lower) THEN "end_of_life"
    ELSE IF AnyIn(FearWords, message_lower) THEN "fear_anxiety"
    ELSE IF AnyIn(FamilyWords, message_lower) THEN "family_support"
    ELSE IF AnyIn(PracticalWords, message_lower) THEN "practical"
    ELSE IF AnyIn(GriefWords, message_lower) THEN "grief"
    ELSE "default"

categorize_message(msg) ==
    LET message_lower == PyLower(msg) IN
    IF message_lower.raised THEN message_lower
    ELSE IF message_lower.value.type # "str" THEN InTypeError
    ELSE
        Returned(CategoryOf(message_lower.value.chars))

---------------------------------------------------------------------------
\* SimpleDoulaAI.build_context_string

\* recent_messages[-3:] takes the last ContextWindow entries.
ContextWindow == 3

\* seq[-n:]
LastN(seq, n) ==
    IF Len(seq) <= n THEN seq ELSE SubSeq(seq, Len(seq) - n + 1, Len(seq))

\* reversed(seq)
Reversed(seq) == [i \in 1..Len(seq) |-> seq[Len(seq) + 1 - i]]

\* f"{role}: {msg.message_body}"
ContextLine(msg) ==
    (IF msg.message_type = "incoming" THEN "Client" ELSE "Assistant")
        \o ": " \o msg.message_body

ContextWindowEntries(msgs) == Reversed(LastN(msgs, ContextWindow))

build_context_string(msgs) ==
    IF msgs = <<>> THEN "This is the start of a new conversation."
    ELSE
        LET shown == ContextWindowEntries(msgs)
            context_parts == << "Recent conversation context:" >>
                                 \o [i \in 1..Len(shown) |-> ContextLine(shown[i])]
        IN  Join("\n", context_parts)

---------------------------------------------------------------------------
\* SimpleDoulaAI.generate_response

ThankYou == "thank you"

YoureSoWelcome == "You're so welcome. "

ErrorResponse ==
    "I'm here to support you, but I'm having technical difficulties right now. Please know that Katy Reyna will be notified and will reach out to you directly soon."

\* Confidence scores, in hundredths: 0.75 and 0.0.
ConfidenceRuleBased == 75

ConfidenceError == 0

\* random.choice(seq), the random source having drawn r.
RandomChoice(seq, r) == seq[(r % Len(seq)) + 1]

\* The `random` module as it is when the caller has not seeded it.
Unseeded == -1

\* The draws random.choice can make: any when the module is unseeded, the one
\* the seed fixes otherwise.
Draws(s) == IF s = Unseeded THEN 0..MaxRandom ELSE {s}

\* Mutant: the reply of an escalation is taken from the 'default' templates.
EscalationTemplateFromDefault == Returned(response_templates["default"][1])

\* self.response_templates['escalation'][0]
EscalationTemplate ==
    IF "escalation" \notin DOMAIN response_templates THEN Raised("KeyError", "'escalation'")
    ELSE IF response_templates["escalation"] = <<>>
         THEN Raised("IndexError", "list index out of range")
    ELSE Returned(response_templates["escalation"][1])

\* random.choice(self.response_templates.get(category, self.response_templates['default']));
\* the default argument of get is evaluated before the call.
CategoryTemplate(category, r) ==
    IF "default" \notin DOMAIN response_templates THEN Raised("KeyError", "'default'")
    ELSE
    LET responses == IF category \in DOMAIN response_templates
                     THEN response_templates[category]
                     ELSE response_templates["default"]
    IN  IF responses = <<>>
        THEN Raised("IndexError", "Cannot choose from an empty sequence")
        ELSE Returned(RandomChoice(responses, r))

\* Mutant: 'thank you' is looked for in the message as written.
PersonalizeCaseSensitive(msg, response_text) ==
    IF Contains(ThankYou, msg.chars)
    THEN YoureSoWelcome \o response_text
    ELSE response_text

\* Add context-aware personalization.
Personalize(msg, response_text) ==
    IF Contains(ThankYou, Lower(msg.chars))
    THEN YoureSoWelcome \o response_text
    ELSE response_text

\* any('medic' in kw for kw in keywords)
ContainsMedicalRequest(keywords) ==
    \E k \in 1..Len(keywords) : Contains("medic", keywords[k])

\* The body of the try block.
GenerateResponseTry(msg, r, elapsed) ==
    LET urgency == analyze_message_urgency(msg) IN
    IF urgency.raised THEN urgency
    ELSE
    LET category == categorize_message(msg) IN
    IF category.raised THEN category
    ELSE
    LET needs_escalation == urgency.value.needs_escalation
        keywords == urgency.value.keywords
        template == IF needs_escalation THEN EscalationTemplate
                    ELSE CategoryTemplate(category.value, r)
    IN
    IF template.raised THEN template
    ELSE
    Returned([response |-> Personalize(msg, template.value),
              should_escalate |-> needs_escalation,
              escalation_reason |->
                  IF needs_escalation
                  THEN Str("Urgent keywords detected: " \o Join(", ", keywords))
                  ELSE PyNone,
              processing_time_ms |-> elapsed,
              model_used |-> "SimpleDoulaAI",
              confidence_score |-> ConfidenceRuleBased,
              urgent_keywords |-> IF needs_escalation THEN keywords ELSE <<>>,
              contains_medical_request |-> ContainsMedicalRequest(keywords),
              message_category |-> category.value])

\* Mutant: the clause catches AttributeError only.
GenerateResponseExceptAttributeOnly(exc, elapsed) ==
    IF exc.type = "AttributeError"
    THEN Returned([response |-> ErrorResponse,
                   should_escalate |-> TRUE,
                   escalation_reason |-> Str("AI system error: " \o exc.text),
                   processing_time_ms |-> elapsed,
                   model_used |-> "SimpleDoulaAI",
                   confidence_score |-> ConfidenceError,
                   urgent_keywords |-> <<>>,
                   contains_medical_request |-> FALSE,
                   message_category |-> "error"])
    ELSE [raised |-> TRUE, value |-> PyNone, exc |-> exc]

\* The except clause: `except Exception as e`.
GenerateResponseExcept(exc, elapsed) ==
    IF exc.type \in ExceptionSubclasses
    THEN Returned([response |-> ErrorResponse,
                   should_escalate |-> TRUE,
                   escalation_reason |-> Str("AI system error: " \o exc.text),
                   processing_time_ms |-> elapsed,
                   model_used |-> "SimpleDoulaAI",
                   confidence_score |-> ConfidenceError,
                   urgent_keywords |-> <<>>,
                   contains_medical_request |-> FALSE,
                   message_category |-> "error"])
    ELSE [raised |-> TRUE, value |-> PyNone, exc |-> exc]

\* Mutant: the personalization pass also looks for 'thank you' in the context.
generate_response_context_aware(msg, context, phone, r, elapsed) ==
    LET body == GenerateResponseTry(msg, r, elapsed) IN
    IF body.raised THEN GenerateResponseExcept(body.exc, elapsed)
    ELSE IF Contains(ThankYou, Lower(context))
         THEN [body EXCEPT !.value.response = YoureSoWelcome \o @]
         ELSE body

\* generate_response(message, conversation_context, phone_number): the body
\* uses neither conversation_context nor phone_number.
generate_response(msg, context, phone, r, elapsed) ==
    LET body == GenerateResponseTry(msg, r, elapsed) IN
    IF body.raised THEN GenerateResponseExcept(body.exc, elapsed) ELSE body

---------------------------------------------------------------------------
\* SimpleDoulaAI.generate_conversation_summary

EndOfLifeTheme == << "dying", "death", "hospice", "terminal" >>

FamilyTheme == << "family", "spouse", "children" >>

AnxietyTheme == << "scared", "afraid", "anxious", "worried" >>

MedicalTheme == << "pain", "medical", "doctor" >>

GriefTheme == << "grief", "sad", "loss" >>

\* themes[:3] keeps the first ThemeLimit themes.
ThemeLimit == 3

\* seq[:n]
FirstN(seq, n) == IF Len(seq) <= n THEN seq ELSE SubSeq(seq, 1, n)

Digits == "0123456789"

\* str(n) for a natural number n
RECURSIVE IntToStr(_)
IntToStr(n) ==
    IF n < 10 THEN CharAt(Digits, n + 1)
    ELSE IntToStr(n \div 10) \o CharAt(Digits, (n % 10) + 1)

\* [msg for msg in messages if msg.message_type == "incoming"]
ClientMessages(msgs) == SelectSeq(msgs, LAMBDA msg : msg.message_type = "incoming")

\* Mutant: the bodies are joined without a separator.
AllTextNoSeparator(client_messages) ==
    Join("", [i \in 1..Len(client_messages) |-> Lower(client_messages[i].message_body)])

\* " ".join([msg.message_body.lower() for msg in client_messages])
AllText(client_messages) ==
    Join(" ", [i \in 1..Len(client_messages) |-> Lower(client_messages[i].message_body)])

\* The themes list built by the five `if any(...)` statements, in their order.
Themes(all_text) ==
    (IF AnyIn(EndOfLifeTheme, all_text) THEN << "end-of-life care" >> ELSE <<>>)
    \o (IF AnyIn(FamilyTheme, all_text) THEN << "family support" >> ELSE <<>>)
    \o (IF AnyIn(AnxietyTheme, all_text) THEN << "anxiety/fear" >> ELSE <<>>)
    \o (IF AnyIn(MedicalTheme, all_text) THEN << "medical concerns" >> ELSE <<>>)
    \o (IF AnyIn(GriefTheme, all_text) THEN << "grief support" >> ELSE <<>>)

\* Mutant: only the client messages are searched for the flag.
AnyUrgentIncomingOnly(msgs) ==
    \E i \in 1..Len(msgs) :
        msgs[i].message_type = "incoming" /\ msgs[i].contains_urgent_keywords

\* any(msg.contains_urgent_keywords for msg in messages)
AnyUrgent(msgs) == \E i \in 1..Len(msgs) : msgs[i].contains_urgent_keywords

UrgentSentence == "Contains urgent keywords requiring attention."

NoMessagesYet == "No messages in conversation yet."

\* Mutant: the sentence of the empty history is reused.
NoClientMessagesAsEmpty == "No messages in conversation yet."

NoClientMessages == "No client messages to summarize."

\* The summary of a history that has client messages.
SummaryText(msgs, client_messages) ==
    LET all_text == AllText(client_messages)
        themes == Themes(all_text)
        summary_parts ==
            << "Conversation with " \o IntToStr(Len(client_messages)) \o " client messages." >>
            \o (IF themes # <<>>
                THEN << "Main themes: " \o Join(", ", FirstN(themes, ThemeLimit)) \o "." >>
                ELSE <<>>)
            \o (IF AnyUrgent(msgs) THEN << UrgentSentence >> ELSE <<>>)
    IN  Join(" ", summary_parts)

generate_conversation_summary(msgs) ==
    IF msgs = <<>> THEN NoMessagesYet
    ELSE
    LET client_messages == ClientMessages(msgs) IN
    IF client_messages = <<>> THEN NoClientMessages
    ELSE SummaryText(msgs, client_messages)

---------------------------------------------------------------------------
\* The inputs of the calls.

\* Pieces of message text; a message concatenates at most MaxFrags of them.
Fragments ==
    { "Help", "chest pain", "should I take", "Doctor ", "Thank you ",
      "I'm scared ", "about my family", "this ", "dying", "so sad", "when" }

RECURSIVE Texts(_)
Texts(n) ==
    IF n = 0 THEN { "" }
    ELSE Texts(n - 1) \cup { t \o f : t \in Texts(n - 1), f \in Fragments }

\* The values passed as `message`: texts, and values that are not texts.
Messages ==
    { Str(t) : t \in Texts(MaxFrags) } \cup { PyNone, PyInt, Bytes("Help") }

\* The stored messages a history is made of.
HistoryEntries ==
    { [message_type |-> "incoming", message_body |-> "dying Family", contains_urgent_keywords |-> FALSE],
      [message_type |-> "incoming", message_body |-> "Scared pa", contains_urgent_keywords |-> FALSE],
      [message_type |-> "incoming", message_body |-> "in sad", contains_urgent_keywords |-> TRUE],
      [message_type |-> "incoming", message_body |-> "Doctor", contains_urgent_keywords |-> FALSE],
      [message_type |-> "outgoing", message_body |-> "Doctor", contains_urgent_keywords |-> TRUE],
      [message_type |-> "outgoing", message_body |-> "in sad", contains_urgent_keywords |-> FALSE] }

RECURSIVE Histories(_)
Histories(n) ==
    IF n = 0 THEN { <<>> }
    ELSE Histories(n - 1) \cup { Append(h, e) : h \in Histories(n - 1), e \in HistoryEntries }

---------------------------------------------------------------------------
\* The state machine: a caller of the global instance doula_ai.

NoReturn == Returned(PyNone)

\* The caller has kept no call.
NoEarlier == [made |-> FALSE, message |-> PyNone, seed |-> Unseeded, ret |-> NoReturn]

Init ==
    /\ urgent_keywords = UrgentKeywords
    /\ medical_keywords = MedicalKeywords
    /\ response_templates = ResponseTemplates
    /\ pc = "idle"
    /\ op = "none"
    /\ message = PyNone
    /\ recent_messages = <<>>
    /\ ret = NoReturn
    /\ conversation_context = ""
    /\ phone_number = ""
    /\ seed = Unseeded
    /\ earlier = NoEarlier

\* The caller passes a message to a method of the instance.
CallWithMessage(method) ==
    /\ pc = "idle"
    /\ message' \in Messages
    /\ op' = method
    /\ pc' = "called"
    /\ UNCHANGED <<urgent_keywords, medical_keywords, response_templates, recent_messages, ret,
                   conversation_context, phone_number, seed, earlier>>

\* The caller passes a history to a method of the instance.
CallWithHistory(method) ==
    /\ pc = "idle"
    /\ recent_messages' \in Histories(MaxHist)
    /\ op' = method
    /\ pc' = "called"
    /\ UNCHANGED <<urgent_keywords, medical_keywords, response_templates, message, ret,
                   conversation_context, phone_number, seed, earlier>>

GenerateResponse ==
    /\ pc = "called"
    /\ op = "generate_response"
    /\ \E r \in Draws(seed), elapsed \in 0..MaxElapsed :
          ret' = generate_response(message, conversation_context, phone_number, r, elapsed)
    /\ pc' = "returned"
    /\ UNCHANGED <<urgent_keywords, medical_keywords, response_templates,
                   op, message, recent_messages,
                   conversation_context, phone_number, seed, earlier>>

CategorizeMessage ==
    /\ pc = "called"
    /\ op = "categorize_message"
    /\ ret' = categorize_message(message)
    /\ pc' = "returned"
    /\ UNCHANGED <<urgent_keywords, medical_keywords, response_templates,
                   op, message, recent_messages,
                   conversation_context, phone_number, seed, earlier>>

BuildContextString ==
    /\ pc = "called"
    /\ op = "build_context_string"
    /\ ret' = Returned(build_context_string(recent_messages))
    /\ pc' = "returned"
    /\ UNCHANGED <<urgent_keywords, medical_keywords, response_templates,
                   op, message, recent_messages,
                   conversation_context, phone_number, seed, earlier>>

GenerateConversationSummary ==
    /\ pc = "called"
    /\ op = "generate_conversation_summary"
    /\ ret' = Returned(generate_conversation_summary(recent_messages))
    /\ pc' = "returned"
    /\ UNCHANGED <<urgent_keywords, medical_keywords, response_templates,
                   op, message, recent_messages,
                   conversation_context, phone_number, seed, earlier>>

\* A test replaces the template table of the instance to force a fault in
\* response selection.
PatchedTemplates ==
    { [k \in {} |-> <<>>],
      [ResponseTemplates EXCEPT !.grief = <<>>] }

PatchTemplates ==
    /\ pc = "idle"
    /\ response_templates = ResponseTemplates
    /\ response_templates' \in PatchedTemplates
    /\ UNCHANGED <<urgent_keywords, medical_keywords, pc, op, message, recent_messages, ret,
                   conversation_context, phone_number, seed, earlier>>

\* The caller takes the outcome and is ready for the next call.
ReturnToCaller ==
    /\ pc = "returned"
    /\ pc' = "idle"
    /\ op' = "none"
    /\ message' = PyNone
    /\ recent_messages' = <<>>
    /\ ret' = NoReturn
    /\ conversation_context' = ""
    /\ phone_number' = ""
    /\ seed' = Unseeded
    /\ UNCHANGED <<urgent_keywords, medical_keywords, response_templates, earlier>>

\* Message processing: generate_response and categorize_message.
Next ==
    \/ CallWithMessage("generate_response")
    \/ CallWithMessage("categorize_message")
    \/ GenerateResponse
    \/ CategorizeMessage
    \/ ReturnToCaller

Spec == Init /\ [][Next]_vars

\* History processing: build_context_string and generate_conversation_summary.
NextHistory ==
    \/ CallWithHistory("build_context_string")
    \/ CallWithHistory("generate_conversation_summary")
    \/ BuildContextString
    \/ GenerateConversationSummary
    \/ ReturnToCaller

SpecHistory == Init /\ [][NextHistory]_vars

\* Message processing with fault injection.
NextFault ==
    \/ CallWithMessage("generate_response")
    \/ GenerateResponse
    \/ PatchTemplates
    \/ ReturnToCaller

SpecFault == Init /\ [][NextFault]_vars

\* The inputs of repeated calls.
RepeatMessages ==
    { Str(t) : t \in Texts(MaxFrags - 1) } \cup { PyNone, PyInt, Bytes("Help") }

Contexts == { "", "Client: thank you\nDoula: You're so welcome." }

PhoneNumbers == { "", "+15550100" }

\* The messages and histories of the calls made between a call and its repeat.
InterveningMessages == { Str("Thank you Help"), Str("so sad"), PyNone }

InterveningHistories ==
    { <<>> } \cup { <<e>> : e \in { h \in HistoryEntries : h.contains_urgent_keywords } }

\* The caller seeds the `random` module and calls generate_response with a
\* message, a context and a sender.
CallSeeded ==
    /\ pc = "idle"
    /\ ~earlier.made
    /\ message' \in RepeatMessages
    /\ conversation_context' \in Contexts
    /\ phone_number' \in PhoneNumbers
    /\ seed' \in 0..MaxRandom
    /\ op' = "generate_response"
    /\ pc' = "called"
    /\ UNCHANGED <<urgent_keywords, medical_keywords, response_templates,
                   recent_messages, ret, earlier>>

\* The caller keeps the message, the seed and the result of the call.
KeepResult ==
    /\ pc = "returned"
    /\ op = "generate_response"
    /\ seed # Unseeded
    /\ ~earlier.made
    /\ earlier' = [made |-> TRUE, message |-> message, seed |-> seed, ret |-> ret]
    /\ pc' = "idle"
    /\ op' = "none"
    /\ message' = PyNone
    /\ recent_messages' = <<>>
    /\ ret' = NoReturn
    /\ conversation_context' = ""
    /\ phone_number' = ""
    /\ seed' = Unseeded
    /\ UNCHANGED <<urgent_keywords, medical_keywords, response_templates>>

\* Another call with a message, made after the kept one; the `random` module
\* is not seeded.
CallBetween(method) ==
    /\ pc = "idle"
    /\ earlier.made
    /\ message' \in InterveningMessages
    /\ conversation_context' \in Contexts
    /\ op' = method
    /\ pc' = "called"
    /\ UNCHANGED <<urgent_keywords, medical_keywords, response_templates,
                   recent_messages, ret, phone_number, seed, earlier>>

\* Another call with a history, made after the kept one.
CallBetweenHistory(method) ==
    /\ pc = "idle"
    /\ earlier.made
    /\ recent_messages' \in InterveningHistories
    /\ op' = method
    /\ pc' = "called"
    /\ UNCHANGED <<urgent_keywords, medical_keywords, response_templates,
                   message, ret, conversation_context, phone_number, seed, earlier>>

\* The caller repeats the kept call: the same message under the same seed, with
\* any context and any sender.
CallAgain ==
    /\ pc = "idle"
    /\ earlier.made
    /\ message' = earlier.message
    /\ seed' = earlier.seed
    /\ conversation_context' \in Contexts
    /\ phone_number' \in PhoneNumbers
    /\ op' = "generate_response"
    /\ pc' = "called"
    /\ UNCHANGED <<urgent_keywords, medical_keywords, response_templates,
                   recent_messages, ret, earlier>>

\* Repeated calls of generate_response with other calls in between.
NextRepeat ==
    \/ CallSeeded
    \/ KeepResult
    \/ CallBetween("generate_response")
    \/ CallBetween("categorize_message")
    \/ CallBetweenHistory("build_context_string")
    \/ CallBetweenHistory("generate_conversation_summary")
    \/ CallAgain
    \/ GenerateResponse
    \/ CategorizeMessage
    \/ BuildContextString
    \/ GenerateConversationSummary
    \/ ReturnToCaller

SpecRepeat == Init /\ [][NextRepeat]_vars

---------------------------------------------------------------------------
\* Properties of generate_response.

\* A call of generate_response has returned to the caller.
ResponseReturned == pc = "returned" /\ op = "generate_response" /\ ~ret.raised

\* term occurs in text as a case-insensitive substring.
ContainsCI(term, text) == Contains(Lower(term), Lower(text))

\* text contains, as a case-insensitive substring, some term of the urgent or of
\* the medical registry.
MentionsKeyword(text) ==
    LET folded == Lower(text) IN
    \/ \E k \in 1..Len(urgent_keywords) : Contains(Lower(urgent_keywords[k]), folded)
    \/ \E k \in 1..Len(medical_keywords) : Contains(Lower(medical_keywords[k]), folded)

\* C1: every text message that contains a term of the urgent or of the medical
\* registry as a case-insensitive substring gets should_escalate = TRUE.
C1_KeywordEscalates ==
    (pc = "returned" /\ op = "generate_response" /\ message.type = "str"
        /\ MentionsKeyword(message.chars))
    => (~ret.raised /\ ret.value.should_escalate)

\* C2 as stated: every result with should_escalate = TRUE carries the first
\* entry of the 'escalation' template set as its reply text, and nothing else.
C2_EscalationReplyIsTemplate ==
    (ResponseReturned /\ ret.value.should_escalate)
    => ret.value.response =
          "Thank you for reaching out. A doula will be with you shortly to provide the personal support you need."

\* C2 amended: a result with should_escalate = TRUE carries the fixed apologetic
\* reply when it is the fault result (category 'error'); otherwise it carries the
\* first 'escalation' template, prefixed by "You're so welcome. " exactly when the
\* lower-cased message contains 'thank you'.  It is never a topical template.
C2_EscalationReplyAmended ==
    (ResponseReturned /\ ret.value.should_escalate)
    => ret.value.response =
          IF ret.value.message_category = "error"
          THEN "I'm here to support you, but I'm having technical difficulties right now. Please know that Katy Reyna will be notified and will reach out to you directly soon."
          ELSE (IF ContainsCI("thank you", message.chars) THEN "You're so welcome. " ELSE "")
               \o "Thank you for reaching out. A doula will be with you shortly to provide the personal support you need."

\* An escalating message that also thanks: the reply is the prefixed template.
C2_Witness ==
    /\ ResponseReturned
    /\ ret.value.should_escalate
    /\ ret.value.message_category # "error"
    /\ ContainsCI("thank you", message.chars)
    /\ ret.value.urgent_keywords # <<>>

\* C3: generate_response never raises; when a step of the try block faults, the
\* result has should_escalate = TRUE, category 'error', confidence 0.0, the
\* fixed apologetic reply and an escalation_reason carrying the fault's text.
C3_FaultBecomesErrorResult ==
    (pc = "returned" /\ op = "generate_response")
    => /\ ~ret.raised
       /\ LET body == GenerateResponseTry(message, 0, 0) IN
          body.raised =>
             /\ ret.value.should_escalate = TRUE
             /\ ret.value.message_category = "error"
             /\ ret.value.confidence_score = 0
             /\ ret.value.escalation_reason = Str("AI system error: " \o body.exc.text)
             /\ ret.value.response =
                   "I'm here to support you, but I'm having technical difficulties right now. Please know that Katy Reyna will be notified and will reach out to you directly soon."

\* A fault in response selection (a text message, the template table patched)
\* has produced the error result.
C3_Witness ==
    /\ ResponseReturned
    /\ message.type = "str"
    /\ ret.value.message_category = "error"
    /\ ret.value.escalation_reason = Str("AI system error: Cannot choose from an empty sequence")

\* C4: a text message that contains no term of the urgent or medical registry
\* (case-insensitive) gets should_escalate = FALSE.
C4_NoKeywordNoEscalation ==
    (pc = "returned" /\ op = "generate_response" /\ message.type = "str"
        /\ ~MentionsKeyword(message.chars))
    => (~ret.raised /\ ret.value.should_escalate = FALSE)

\* A non-empty text without keywords has been answered without escalation.
C4_Witness ==
    /\ ResponseReturned
    /\ message.type = "str"
    /\ message.chars = "I'm scared about my family"
    /\ ret.value.should_escalate = FALSE
    /\ ret.value.escalation_reason = PyNone

---------------------------------------------------------------------------
\* Properties of categorize_message.

\* The keyword groups in the priority order the claim gives.
PriorityGroups ==
    << [name |-> "greeting", words |-> GreetingWords],
       [name |-> "end_of_life", words |-> EndOfLifeWords],
       [name |-> "fear_anxiety", words |-> FearWords],
       [name |-> "family_support", words |-> FamilyWords],
       [name |-> "practical", words |-> PracticalWords],
       [name |-> "grief", words |-> GriefWords] >>

\* The groups that have a keyword in the lower-cased text.
MatchingGroups(text) ==
    { g \in 1..Len(PriorityGroups) : AnyIn(PriorityGroups[g].words, Lower(text)) }

FirstMatchingGroup(text) ==
    IF MatchingGroups(text) = {} THEN "default"
    ELSE PriorityGroups[CHOOSE g \in MatchingGroups(text) :
                            \A h \in MatchingGroups(text) : g <= h].name

Categories ==
    {"greeting", "end_of_life", "fear_anxiety", "family_support", "practical",
     "grief", "default", "error"}

\* C6: categorize_message returns the first group, in the order greeting,
\* end_of_life, fear_anxiety, family_support, practical, grief, that has a
\* keyword in the lower-cased message, and 'default' when none has; the value is
\* in the closed category set; "I'm scared about my family" is fear_anxiety.
C6_FirstGroupWins ==
    (pc = "returned" /\ op = "categorize_message" /\ message.type = "str")
    => /\ ~ret.raised
       /\ ret.value = FirstMatchingGroup(message.chars)
       /\ ret.value \in Categories
       /\ (message.chars = "I'm scared about my family" => ret.value = "fear_anxiety")

\* A message matching the fear group and the family group, and no earlier one.
C6_Witness ==
    /\ pc = "returned" /\ op = "categorize_message" /\ message.type = "str"
    /\ MatchingGroups(message.chars) = {3, 4}
    /\ ret.value = "fear_anxiety"

---------------------------------------------------------------------------
\* Properties of build_context_string.

ContextReturned == pc = "returned" /\ op = "build_context_string"

\* The last min(3, Len(h)) entries of a chronological history, oldest first.
LastThreeOldestFirst(h) ==
    [i \in 1..(IF Len(h) < 3 THEN Len(h) ELSE 3) |->
        h[Len(h) - (IF Len(h) < 3 THEN Len(h) ELSE 3) + i]]

\* 'Client: <body>' for an incoming entry, 'Assistant: <body>' otherwise.
RoleLine(entry) ==
    IF entry.message_type = "incoming"
    THEN "Client: " \o entry.message_body
    ELSE "Assistant: " \o entry.message_body

\* The header line, then one line per entry, each line after a newline.
RECURSIVE Lines(_)
Lines(entries) ==
    IF entries = <<>> THEN ""
    ELSE "\n" \o RoleLine(Head(entries)) \o Lines(Tail(entries))

\* C7: for a non-empty chronological history (most recent last) the context is
\* the header line followed by the last min(3, length) entries, one per line,
\* oldest first, as 'Client: <body>' or 'Assistant: <body>'; for the empty
\* history it is the fixed start-of-new-conversation sentence.
C7_ContextOldestFirst ==
    ContextReturned
    => ret.value =
          IF recent_messages = <<>>
          THEN "This is the start of a new conversation."
          ELSE "Recent conversation context:" \o Lines(LastThreeOldestFirst(recent_messages))

---------------------------------------------------------------------------
\* Properties of generate_conversation_summary.

SummaryReturned == pc = "returned" /\ op = "generate_conversation_summary"

HasIncoming(h) == \E i \in 1..Len(h) : h[i].message_type = "incoming"

HasUrgentFlag(h) == \E i \in 1..Len(h) : h[i].contains_urgent_keywords

\* C8 as stated: a history without incoming entries, empty or not, gets the very
\* string the empty history gets.
C8_OneNothingToSummarizeString ==
    (SummaryReturned /\ ~HasIncoming(recent_messages))
    => ret.value = generate_conversation_summary(<<>>)

\* C8 amended: the empty history gets 'No messages in conversation yet.' and a
\* non-empty history whose entries are all outgoing gets
\* 'No client messages to summarize.'
C8_TwoFixedStrings ==
    (SummaryReturned /\ ~HasIncoming(recent_messages))
    => ret.value =
          IF recent_messages = <<>>
          THEN "No messages in conversation yet."
          ELSE "No client messages to summarize."

\* A history of two outgoing entries has been summarised.
C8_Witness ==
    /\ SummaryReturned
    /\ Len(recent_messages) = 2
    /\ ~HasIncoming(recent_messages)
    /\ ret.value = "No client messages to summarize."

\* C9 as stated: the summary contains the urgent sentence if and only if some
\* entry of the full history, incoming or outgoing, has its urgent flag set.
C9_UrgentSentenceIffFlag ==
    SummaryReturned
    => (Contains("Contains urgent keywords requiring attention.", ret.value)
           <=> HasUrgentFlag(recent_messages))

\* C9 amended: for a history with at least one incoming entry the summary
\* contains the urgent sentence if and only if some entry of the full history,
\* incoming or outgoing, has its urgent flag set; for a history without incoming
\* entries the summary never contains it.
C9_UrgentSentenceAmended ==
    SummaryReturned
    => (Contains("Contains urgent keywords requiring attention.", ret.value)
           <=> (HasIncoming(recent_messages) /\ HasUrgentFlag(recent_messages)))

\* Only an outgoing entry is flagged, an incoming entry exists, and the summary
\* contains the sentence.
C9_Witness ==
    /\ SummaryReturned
    /\ HasIncoming(recent_messages)
    /\ \E i \in 1..Len(recent_messages) :
          recent_messages[i].message_type = "outgoing" /\ recent_messages[i].contains_urgent_keywords
    /\ \A i \in 1..Len(recent_messages) :
          recent_messages[i].contains_urgent_keywords => recent_messages[i].message_type = "outgoing"
    /\ Contains("Contains urgent keywords requiring attention.", ret.value)

\* The lower-cased bodies of the incoming entries, in order.
IncomingBodies(h) ==
    LET inc == SelectSeq(h, LAMBDA e : e.message_type = "incoming")
    IN  [i \in 1..Len(inc) |-> Lower(inc[i].message_body)]

\* The bodies one after the other, and the bodies with one space between them.
Concatenation(bodies) == Join("", bodies)

SpaceJoined(bodies) == Join(" ", bodies)

\* The themes in the evaluation order end-of-life, family, anxiety/fear,
\* medical, grief.
ThemeGroups ==
    << [label |-> "end-of-life care", words |-> EndOfLifeTheme],
       [label |-> "family support", words |-> FamilyTheme],
       [label |-> "anxiety/fear", words |-> AnxietyTheme],
       [label |-> "medical concerns", words |-> MedicalTheme],
       [label |-> "grief support", words |-> GriefTheme] >>

\* The labels of the themes that have a keyword in blob, in evaluation order.
PresentThemes(blob) ==
    LET present == SelectSeq(ThemeGroups, LAMBDA g : AnyIn(g.words, blob))
    IN  [i \in 1..Len(present) |-> present[i].label]

\* The first (up to 3) of a list of labels.
FirstThree(labels) == IF Len(labels) <= 3 THEN labels ELSE SubSeq(labels, 1, 3)

\* The summary lists exactly the labels `listed`, in that order.
SummaryLists(summary, listed) ==
    /\ Len(listed) <= 3
    /\ \A g \in 1..Len(ThemeGroups) :
          Contains(ThemeGroups[g].label, summary)
             <=> (\E i \in 1..Len(listed) : listed[i] = ThemeGroups[g].label)
    /\ IF listed = <<>>
       THEN ~Contains("Main themes", summary)
       ELSE Contains(" Main themes: " \o Join(", ", listed) \o ".", summary)

\* C10 as stated: with at least one incoming entry, the summary lists the first
\* (up to 3) themes, in evaluation order, that have a keyword anywhere in the
\* concatenation of the lower-cased incoming bodies.
C10_ThemesOfConcatenation ==
    (SummaryReturned /\ HasIncoming(recent_messages))
    => SummaryLists(ret.value,
                    FirstThree(PresentThemes(Concatenation(IncomingBodies(recent_messages)))))

\* C10 amended: with at least one incoming entry, the summary lists the first
\* (up to 3) themes, in evaluation order, that have a keyword anywhere in the
\* lower-cased incoming bodies joined with a single space between consecutive
\* bodies; outgoing bodies never contribute.
C10_ThemesOfSpaceJoined ==
    (SummaryReturned /\ HasIncoming(recent_messages))
    => SummaryLists(ret.value,
                    FirstThree(PresentThemes(SpaceJoined(IncomingBodies(recent_messages)))))

\* Four themes are present across the incoming bodies, an outgoing body names a
\* fifth, and the summary lists the first three.
C10_Witness ==
    /\ SummaryReturned
    /\ HasIncoming(recent_messages)
    /\ Len(PresentThemes(SpaceJoined(IncomingBodies(recent_messages)))) = 4
    /\ \E i \in 1..Len(recent_messages) :
          recent_messages[i].message_type = "outgoing" /\ recent_messages[i].message_body = "Doctor"
    /\ Contains("Main themes: end-of-life care, family support, anxiety/fear.", ret.value)

---------------------------------------------------------------------------
\* Properties of the personalization pass of generate_response.

\* The entries of the template set of a category.
TemplatesOf(category) ==
    { ResponseTemplates[category][i] : i \in 1..Len(ResponseTemplates[category]) }

\* C11: a text message whose lower-cased text contains 'thank you' and that
\* contains no urgent or medical keyword is answered by "You're so welcome. "
\* followed by a template of the message's category; a text message that does
\* not contain 'thank you' is answered by the template alone: the first
\* 'escalation' template when it escalates, a template of its category otherwise.
C11_ThankYouPrefixed ==
    (pc = "returned" /\ op = "generate_response" /\ message.type = "str")
    => /\ ~ret.raised
       /\ (ContainsCI("thank you", message.chars) /\ ~MentionsKeyword(message.chars))
            => \E t \in TemplatesOf(FirstMatchingGroup(message.chars)) :
                  ret.value.response = "You're so welcome. " \o t
       /\ ~ContainsCI("thank you", message.chars)
            => IF ret.value.should_escalate
               THEN ret.value.response = ResponseTemplates["escalation"][1]
               ELSE ret.value.response \in TemplatesOf(FirstMatchingGroup(message.chars))

\* A message of thanks written with a capital letter, in the grief category,
\* has been answered by the acknowledgment and the second grief template.
C11_Witness ==
    /\ ResponseReturned
    /\ message.chars = "Thank you so sad"
    /\ ~ret.value.should_escalate
    /\ ret.value.response =
          "You're so welcome. There's no timeline for grief. Be patient and gentle with yourself during this process."

---------------------------------------------------------------------------
\* Properties of repeated calls of generate_response.

\* An outcome of generate_response with the latency left out.
ExceptLatency(outcome) ==
    IF outcome.raised THEN outcome
    ELSE [outcome EXCEPT !.value.processing_time_ms = 0]

\* C12: no call changes the keyword registries or the template table, and a
\* call of generate_response with the message and the random pick of an earlier
\* call returns a result equal to the earlier one in every field except the
\* latency, whatever calls were made in between and whatever context and sender
\* are passed.
C12_SameInputsSameResult ==
    /\ urgent_keywords = UrgentKeywords
    /\ medical_keywords = MedicalKeywords
    /\ response_templates = ResponseTemplates
    /\ (pc = "returned" /\ op = "generate_response" /\ earlier.made
          /\ message = earlier.message /\ seed = earlier.seed)
        => ExceptLatency(ret) = ExceptLatency(earlier.ret)

\* A repeated call, of a message answered by the picked template of its
\* category, has returned with another context, another sender and another
\* latency than the kept call had.
C12_Witness ==
    /\ pc = "returned" /\ op = "generate_response" /\ earlier.made
    /\ message = earlier.message /\ seed = earlier.seed
    /\ message = Str("so sad")
    /\ seed = 2
    /\ conversation_context # ""
    /\ phone_number # ""
    /\ ~ret.value.should_escalate
    /\ ret.value.response = GriefTemplates[3]
    /\ ret.value.processing_time_ms # earlier.ret.value.processing_time_ms

---------------------------------------------------------------------------
\* Properties of the matched keywords and of the escalation reason.

\* The terms of a registry, in registry order, that occur as written in a
\* lower-cased text.
RECURSIVE MatchingTerms(_, _)
MatchingTerms(registry, folded) ==
    IF registry = <<>> THEN <<>>
    ELSE (IF Contains(Head(registry), folded) THEN <<Head(registry)>> ELSE <<>>)
         \o MatchingTerms(Tail(registry), folded)

\* The entries of a list separated by ', '.
RECURSIVE CommaList(_)
CommaList(list) ==
    IF list = <<>> THEN ""
    ELSE IF Len(list) = 1 THEN list[1]
    ELSE list[1] \o ", " \o CommaList(Tail(list))

\* The list has the entry.
Includes(list, entry) == \E i \in 1..Len(list) : list[i] = entry

\* The matched-keyword list the claim describes for a text.
MatchedKeywords(text) ==
    LET folded == Lower(text) IN
    MatchingTerms(UrgentKeywords, folded) \o MatchingTerms(MedicalKeywords, folded)

\* C13 as stated: in every result with should_escalate = TRUE the
\* matched-keyword list is the matching urgent terms in registry order followed
\* by the matching medical terms in registry order, and escalation_reason is
\* 'Urgent keywords detected: ' followed by that list joined with ', '.
C13_MatchedKeywordsAndReason ==
    (ResponseReturned /\ ret.value.should_escalate)
    => /\ ret.value.urgent_keywords = MatchedKeywords(message.chars)
       /\ ret.value.escalation_reason =
             Str("Urgent keywords detected: " \o CommaList(ret.value.urgent_keywords))

\* C13 amended: in every result with should_escalate = TRUE other than the
\* fault result (category 'error'), the matched-keyword list is the urgent
\* terms that occur in the lower-cased message, in registry order, followed by
\* the medical terms that do, in registry order, none left out as a duplicate or
\* as part of another (with 'chest pain' and 'help' the list has both, and
\* 'pain'); escalation_reason is 'Urgent keywords detected: ' followed by the
\* list joined with ', '.
C13_MatchedKeywordsAmended ==
    (ResponseReturned /\ ret.value.should_escalate /\ ret.value.message_category # "error")
    => /\ message.type = "str"
       /\ ret.value.urgent_keywords = MatchedKeywords(message.chars)
       /\ ret.value.urgent_keywords # <<>>
       /\ ret.value.escalation_reason =
             Str("Urgent keywords detected: " \o CommaList(ret.value.urgent_keywords))
       /\ (ContainsCI("chest pain", message.chars) /\ ContainsCI("help", message.chars))
            => /\ Includes(ret.value.urgent_keywords, "chest pain")
               /\ Includes(ret.value.urgent_keywords, "help")
               /\ Includes(ret.value.urgent_keywords, "pain")

\* A message with 'chest pain' before 'help' has escalated: the list is in
\* registry order and has 'pain' as well.
C13_Witness ==
    /\ ResponseReturned
    /\ message.chars = "chest painHelp"
    /\ ret.value.urgent_keywords = << "help", "pain", "chest pain" >>
    /\ ret.value.escalation_reason = Str("Urgent keywords detected: help, pain, chest pain")

=============================================================================
